---------------------------- MODULE Spec2Model ----------------------------
(***************************************************************************)
(* A model of florentino.linear_model.LinearRegression                     *)
(* (src/florentino/linear_model/linear.py).                                *)
(*                                                                         *)
(* numpy arrays are modelled as a reference [shape, buf] into a heap of    *)
(* buffers, so that two arrays that share memory (a view) are two          *)
(* references with the same buf.  A matrix value is [shape, data] with     *)
(* data the row-major sequence of its entries.                             *)
(*                                                                         *)
(* Integer arrays hold integers.  The arrays numpy computes in floating    *)
(* point (the inverse, beta, predictions, the loss) hold exact rationals   *)
(* <<n, d>> in lowest terms with d > 0: rounding is not modelled.          *)
(***************************************************************************)
EXTENDS Integers, Sequences, FiniteSets, TLC

\* ------------------------------------------------------------------ bounds

MaxRows == 3

MaxCols == 2

MaxDegree == 2

MaxWrites == 1

\* ------------------------------------------------------- exact arithmetic

Abs(i) == IF i < 0 THEN -i ELSE i

RECURSIVE GCD(_, _)
GCD(a, b) == IF b = 0 THEN a ELSE GCD(b, a % b)

\* the rational n/d in lowest terms, d # 0
Rat(n, d) ==
    LET g == GCD(Abs(n), Abs(d))
        s == IF d < 0 THEN -1 ELSE 1
    IN  <<(s * n) \div g, (s * d) \div g>>

RInt(i) == <<i, 1>>

RAdd(p, q) == Rat(p[1] * q[2] + q[1] * p[2], p[2] * q[2])

RSub(p, q) == Rat(p[1] * q[2] - q[1] * p[2], p[2] * q[2])

RMul(p, q) == Rat(p[1] * q[1], p[2] * q[2])

RDiv(p, q) == Rat(p[1] * q[2], p[2] * q[1])

RECURSIVE IPow(_, _)
IPow(v, p) == IF p = 0 THEN 1 ELSE v * IPow(v, p - 1)

RECURSIVE RSum(_, _)
\* the sum of f[1] .. f[n], rationals
RSum(f, n) == IF n = 0 THEN RInt(0) ELSE RAdd(RSum(f, n - 1), f[n])

RECURSIVE ISum(_, _)
\* the sum of f[1] .. f[n], integers
ISum(f, n) == IF n = 0 THEN 0 ELSE ISum(f, n - 1) + f[n]

RECURSIVE Product(_)
\* numpy's size of a shape
Product(shape) == IF shape = <<>> THEN 1 ELSE Head(shape) * Product(Tail(shape))

\* ----------------------------------------------------------- ndarray values

ndim(a) == Len(a.shape)

\* entry (i, j), 0-based, of the 2-dimensional value a
At(a, i, j) == a.data[i * a.shape[2] + j + 1]

\* the array of the given shape whose entries, row-major, are f[1], f[2], ...
\* (as a sequence: the entries are computed once, when the array is made)
array(shape, f) == [shape |-> shape, data |-> <<>> \o f]

\* np.ones((n, 1), dtype=x.dtype) for an integer x
ones(n) == array(<<n, 1>>, [k \in 1..n |-> 1])

\* np.hstack((a, b)) of two 2-dimensional values with the same row count:
\* a new array
hstack(a, b) ==
    LET m == a.shape[2] + b.shape[2]
    IN  array(<<a.shape[1], m>>,
              [k \in 1..(a.shape[1] * m) |->
                 LET i == (k - 1) \div m
                     j == (k - 1) % m
                 IN  IF j < a.shape[2] THEN At(a, i, j)
                                       ELSE At(b, i, j - a.shape[2])])

\* power with x * deg in place of x ** deg
power_times(x, deg) == array(x.shape, [k \in DOMAIN x.data |-> x.data[k] * deg])

\* x ** deg, elementwise, a new array
power(x, deg) == array(x.shape, [k \in DOMAIN x.data |-> IPow(x.data[k], deg)])

\* a.T
transpose(a) ==
    array(<<a.shape[2], a.shape[1]>>,
          [k \in 1..(a.shape[1] * a.shape[2]) |->
             At(a, (k - 1) % a.shape[1], (k - 1) \div a.shape[1])])

\* a @ b for integer values
matmul(a, b) ==
    array(<<a.shape[1], b.shape[2]>>,
          [k \in 1..(a.shape[1] * b.shape[2]) |->
             LET i == (k - 1) \div b.shape[2]
                 j == (k - 1) % b.shape[2]
             IN  ISum([l \in 1..a.shape[2] |-> At(a, i, l - 1) * At(b, l - 1, j)],
                      a.shape[2])])

\* a @ b for rational values
rmatmul(a, b) ==
    array(<<a.shape[1], b.shape[2]>>,
          [k \in 1..(a.shape[1] * b.shape[2]) |->
             LET i == (k - 1) \div b.shape[2]
                 j == (k - 1) % b.shape[2]
             IN  RSum([l \in 1..a.shape[2] |-> RMul(At(a, i, l - 1), At(b, l - 1, j))],
                      a.shape[2])])

\* an integer array taken into a floating-point computation
asfloat(a) == array(a.shape, [k \in DOMAIN a.data |-> RInt(a.data[k])])

\* ------------------------------------------------------------ np.linalg.inv

None == [type |-> "None"]

ValueError(msg) == [type |-> "ValueError", msg |-> msg]

LinAlgError == [type |-> "LinAlgError", msg |-> "Singular matrix"]

Min(S) == CHOOSE i \in S : \A j \in S : i <= j

RECURSIVE GaussJordan(_, _)
\* Gauss-Jordan elimination of R = [A | I], k x 2k, from column c (0-based)
\* on: [I | inverse of A], or None when a column has no pivot
GaussJordan(R, c) ==
    LET k == R.shape[1]
        P == {i \in c..(k - 1) : At(R, i, c)[1] # 0}
        p == Min(P)
        \* rows c and p exchanged
        S == array(R.shape, [n \in 1..(2 * k * k) |->
                LET i == (n - 1) \div (2 * k)
                IN  At(R, IF i = c THEN p ELSE IF i = p THEN c ELSE i, (n - 1) % (2 * k))])
        \* row c divided by the pivot, and taken out of the other rows
        E == array(R.shape, [n \in 1..(2 * k * k) |->
                LET i == (n - 1) \div (2 * k)
                    j == (n - 1) % (2 * k)
                    pr == RDiv(At(S, c, j), At(S, c, c))
                IN  IF i = c THEN pr ELSE RSub(At(S, i, j), RMul(At(S, i, c), pr))])
    IN  IF c >= k THEN R
        ELSE IF P = {} THEN None
        ELSE GaussJordan(E, c + 1)

\* np.linalg.inv(a) of a square integer value: the exact inverse as a float
\* array, LinAlgError when a is singular
inv(a) ==
    LET k == a.shape[1]
        R == array(<<k, 2 * k>>, [n \in 1..(2 * k * k) |->
                LET i == (n - 1) \div (2 * k)
                    j == (n - 1) % (2 * k)
                IN  IF j < k THEN RInt(At(a, i, j))
                    ELSE IF j - k = i THEN RInt(1) ELSE RInt(0)])
        G == GaussJordan(R, 0)
    IN  IF G = None
        THEN [raised |-> LinAlgError, value |-> None]
        ELSE [raised |-> None,
              value  |-> array(<<k, k>>, [n \in 1..(k * k) |->
                            At(G, (n - 1) \div k, k + ((n - 1) % k))])]

\* -------------------------------------------------------- LinearRegression

\* _check testing y.shape[0] in place of y.shape[1] for the single column
_check_wrong_axis(x, y) ==
    IF ndim(x) # 2 THEN ValueError("x must be a 2-dimensional array")
    ELSE IF ndim(y) # 2 THEN ValueError("y must be a 2-dimensional array")
    ELSE IF y.shape[1] # 1 THEN ValueError("y must have exactly one column")
    ELSE IF x.shape[1] # y.shape[1]
         THEN ValueError("Number of rows in x must match number of rows in y")
    ELSE None

\* LinearRegression._check(x, y): the error to raise, or None
_check(x, y) ==
    IF ndim(x) # 2 THEN ValueError("x must be a 2-dimensional array")
    ELSE IF ndim(y) # 2 THEN ValueError("y must be a 2-dimensional array")
    ELSE IF y.shape[2] # 1 THEN ValueError("y must have exactly one column")
    ELSE IF x.shape[1] # y.shape[1]
         THEN ValueError("Number of rows in x must match number of rows in y")
    ELSE None

RECURSIVE poly_loop(_, _, _, _)
\* for deg in range(deg, degree + 1): poly_features = hstack((poly_features, x ** deg))
poly_loop(poly_features, x, deg, degree) ==
    IF deg > degree THEN poly_features
    ELSE poly_loop(hstack(poly_features, power(x, deg)), x, deg + 1, degree)

\* LinearRegression._polynomial_features(x, degree) of a 2-dimensional x:
\* the array returned, and the argument as the call leaves it
_polynomial_features(x, degree) ==
    [ret |-> poly_loop(x, x, 2, degree), x |-> x]

\* the value of the array reference r in the heap h
Deref(r, h) == [shape |-> r.shape, data |-> h[r.buf]]

\* _fit with the column of ones stacked after the features
_fit_bias_last(x, y) ==
    [x |-> hstack(x, ones(x.shape[1])),
     y |-> [shape |-> <<Product(y.shape), 1>>, buf |-> y.buf]]

\* LinearRegression._fit(x, y) of the value x and the array reference y: the
\* new array self.x, and self.y, which y.reshape(-1, 1) makes a view of y (a
\* reference to y's own buffer)
_fit(x, y) ==
    [x |-> hstack(ones(x.shape[1]), x),
     y |-> [shape |-> <<Product(y.shape), 1>>, buf |-> y.buf]]

\* _train falling back to zero coefficients when the inversion fails
_train_fallback(x, y) ==
    LET xt == transpose(x)
        i  == inv(matmul(xt, x))
    IN  IF i.raised # None
        THEN [raised |-> None,
              beta   |-> array(<<x.shape[2], 1>>, [k \in 1..x.shape[2] |-> RInt(0)])]
        ELSE [raised |-> None,
              beta   |-> rmatmul(rmatmul(i.value, asfloat(xt)), asfloat(y))]

\* LinearRegression._train() on the values of self.x and self.y: beta, or the
\* error np.linalg.inv raises, which nothing catches
_train(x, y) ==
    LET xt == transpose(x)
        i  == inv(matmul(xt, x))
    IN  IF i.raised # None
        THEN [raised |-> i.raised, beta |-> None]
        ELSE [raised |-> None,
              beta   |-> rmatmul(rmatmul(i.value, asfloat(xt)), asfloat(y))]

\* LinearRegression.__init__(x_train, y_train, degree) of two array references
\* in the heap h: the error raised, the object built (None when an error is
\* raised: the caller gets no object) and the heap
__init__(x_train, y_train, degree, h) ==
    LET _is_valid == _check(x_train, y_train)
        x_train_poly == _polynomial_features(Deref(x_train, h), degree).ret
        fit == _fit(x_train_poly, y_train)
        tr  == _train(fit.x, Deref(fit.y, h))
    IN  IF _is_valid # None
        THEN [raised |-> _is_valid, self |-> None, heap |-> h]
        ELSE IF tr.raised # None
        THEN [raised |-> tr.raised, self |-> None, heap |-> h]
        ELSE [raised |-> None,
              self   |-> [type        |-> "LinearRegression",
                          degree      |-> degree,
                          x           |-> [shape |-> fit.x.shape, buf |-> "self_x"],
                          y           |-> fit.y,
                          beta        |-> [shape |-> tr.beta.shape, buf |-> "beta"],
                          num_data    |-> fit.x.shape[1],
                          num_feature |-> fit.x.shape[2]],
              heap   |-> [h EXCEPT !.self_x = fit.x.data, !.beta = tr.beta.data]]

\* predict comparing the expanded width with num_feature, not num_feature - 1
predict_off_by_one(self, h, x) ==
    LET x_poly == _polynomial_features(x, self.degree)
        _one_column == ones(x.shape[1])
        xb == hstack(_one_column, x_poly.ret)
    IN  IF ndim(x) # 2
        THEN [raised |-> ValueError("x must be a 2-dimensional array"),
              value |-> None, x |-> x, self |-> self, heap |-> h]
        ELSE IF x_poly.ret.shape[2] # self.num_feature
        THEN [raised |-> ValueError("x must have num_feature - 1 features (including polynomial terms)"),
              value |-> None, x |-> x_poly.x, self |-> self, heap |-> h]
        ELSE [raised |-> None,
              value  |-> rmatmul(asfloat(xb), Deref(self.beta, h)),
              x |-> x_poly.x, self |-> self, heap |-> h]

\* predict assigning the augmented matrix to self.x instead of the local x
predict_assigns_self_x(self, h, x) ==
    LET x_poly == _polynomial_features(x, self.degree)
        _one_column == ones(x.shape[1])
        xb == hstack(_one_column, x_poly.ret)
    IN  IF ndim(x) # 2
        THEN [raised |-> ValueError("x must be a 2-dimensional array"),
              value |-> None, x |-> x, self |-> self, heap |-> h]
        ELSE IF x_poly.ret.shape[2] # self.num_feature - 1
        THEN [raised |-> ValueError("x must have num_feature - 1 features (including polynomial terms)"),
              value |-> None, x |-> x_poly.x, self |-> self, heap |-> h]
        ELSE [raised |-> None,
              value  |-> rmatmul(asfloat(xb), Deref(self.beta, h)),
              x |-> x_poly.x,
              self |-> [self EXCEPT !.x = [shape |-> xb.shape, buf |-> "self_x"]],
              heap |-> [h EXCEPT !.self_x = xb.data]]

\* LinearRegression.predict(x) of the array value x: the error raised, the
\* value returned, and x, the object and the heap as the call leaves them
predict(self, h, x) ==
    LET x_poly == _polynomial_features(x, self.degree)
        _one_column == ones(x.shape[1])
        xb == hstack(_one_column, x_poly.ret)
    IN  IF ndim(x) # 2
        THEN [raised |-> ValueError("x must be a 2-dimensional array"),
              value |-> None, x |-> x, self |-> self, heap |-> h]
        ELSE IF x_poly.ret.shape[2] # self.num_feature - 1
        THEN [raised |-> ValueError("x must have num_feature - 1 features (including polynomial terms)"),
              value |-> None, x |-> x_poly.x, self |-> self, heap |-> h]
        ELSE [raised |-> None,
              value  |-> rmatmul(asfloat(xb), Deref(self.beta, h)),
              x |-> x_poly.x, self |-> self, heap |-> h]

\* LinearRegression.para(): the array returned is self.beta itself
para(self, h) == [value |-> self.beta, self |-> self, heap |-> h]

\* LinearRegression.loss(): np.sum((self.y - self.x @ self.beta) ** 2)
loss(self, h) ==
    LET p == rmatmul(asfloat(Deref(self.x, h)), Deref(self.beta, h))
        y == asfloat(Deref(self.y, h))
        r == [k \in 1..Len(p.data) |->
                LET e == RSub(y.data[k], p.data[k]) IN RMul(e, e)]
    IN  [value |-> RSum(r, Len(p.data)), self |-> self, heap |-> h]

\* ------------------------------------------------------------ the inputs

\* the entries of the training feature arrays
Vals == {0, 1, 2}

\* the entries of the training targets
TargetVals == {0, 1}

\* how far each further feature column is moved against the first one
Lags == {0, 1}

\* the value the caller overwrites an entry with: none of the entries above
WriteVals == {7}

\* the degrees passed to the constructor, which checks none of them
Degrees == (-1)..MaxDegree

zeros(shape) == array(shape, [k \in 1..Product(shape) |-> 0])

\* the nondecreasing columns of n entries of V
Columns(n, V) == {c \in [1..n -> V] : \A i \in 1..(n - 1) : c[i] <= c[i + 1]}

\* n x m: column j is the column c moved up by j * lag rows (lag 0: every
\* column is c)
Lagged(c, n, m, lag) ==
    array(<<n, m>>,
          [k \in 1..(n * m) |-> c[((((k - 1) \div m) + ((k - 1) % m) * lag) % n) + 1]])

\* the feature arrays: up to MaxRows x MaxCols, a nondecreasing first column
\* and its lagged copies (two identical columns among them), and an array of
\* 1 and one of 3 dimensions
FeatureArrays ==
    UNION {UNION {{Lagged(c, n, m, lag) : c \in Columns(n, Vals), lag \in Lags} :
                    m \in 0..MaxCols} : n \in 0..MaxRows}
    \cup {zeros(<<MaxRows>>), zeros(<<MaxRows, 1, 1>>)}

\* the target arrays: a nondecreasing column of up to MaxRows rows, and
\* arrays of 1 and 3 dimensions and of 0 and 2 columns
TargetArrays ==
    UNION {{array(<<n, 1>>, d) : d \in Columns(n, TargetVals)} : n \in 0..MaxRows}
    \cup {zeros(<<MaxRows>>), zeros(<<MaxRows, 0>>), zeros(<<MaxRows, 2>>),
          zeros(<<MaxRows, 1, 1>>)}

\* the concrete scenarios A (a line) and C (a parabola)
Scenarios ==
    {[x |-> [shape |-> <<4, 1>>, data |-> <<1, 2, 3, 4>>],
      y |-> [shape |-> <<4, 1>>, data |-> <<2, 4, 6, 8>>], degree |-> 1],
     [x |-> [shape |-> <<3, 1>>, data |-> <<1, 2, 3>>],
      y |-> [shape |-> <<3, 1>>, data |-> <<1, 4, 9>>], degree |-> 2]}

TrainingInputs ==
    {[x |-> x, y |-> y, degree |-> d] : <<x, y, d>> \in FeatureArrays \X TargetArrays \X Degrees}
    \cup Scenarios

\* the arrays predict is called with: a row of m columns for every m up to
\* MaxCols + 1, and arrays of 0 and 2 rows, of 1 and of 3 dimensions
PredictInputs ==
    {[shape |-> <<1, m>>, data |-> [k \in 1..m |-> k]] : m \in 0..(MaxCols + 1)}
    \cup {[shape |-> <<1, 1>>, data |-> <<5>>],
          [shape |-> <<2, 1>>, data |-> <<1, 3>>], zeros(<<0, 1>>),
          zeros(<<2>>), zeros(<<1, 1, 1>>)}

\* --------------------------------------------------------------- the state

VARIABLES
    pc,          \* "start", "trained" (the constructor returned), "failed" (it raised)
    x_train,     \* the caller's feature array: a reference into the heap
    y_train,     \* the caller's target array: a reference into the heap
    degree_arg,  \* the degree the caller passes
    heap,        \* the buffers of the arrays
    model,       \* the LinearRegression object, None when there is none
    ret,         \* the last call: its name, arguments, result or error
    writes       \* the number of entries the caller has overwritten

vars == <<pc, x_train, y_train, degree_arg, heap, model, ret, writes>>

Init ==
    \E t \in TrainingInputs :
        /\ pc = "start"
        /\ x_train = [shape |-> t.x.shape, buf |-> "x_train"]
        /\ y_train = [shape |-> t.y.shape, buf |-> "y_train"]
        /\ degree_arg = t.degree
        /\ heap = [x_train |-> t.x.data, y_train |-> t.y.data, self_x |-> <<>>, beta |-> <<>>]
        /\ model = None
        /\ ret = [op |-> "none"]
        /\ writes = 0

\* model = LinearRegression(x_train, y_train, degree)
Construct ==
    /\ pc = "start"
    /\ LET r == __init__(x_train, y_train, degree_arg, heap)
       IN  /\ pc' = IF r.raised = None THEN "trained" ELSE "failed"
           /\ model' = r.self
           /\ heap' = r.heap
           /\ ret' = [op |-> "__init__", raised |-> r.raised]
    /\ UNCHANGED <<x_train, y_train, degree_arg, writes>>

\* model.predict(x)
Predict ==
    /\ pc = "trained"
    /\ \E x \in PredictInputs :
        LET r == predict(model, heap, x)
        IN  /\ model' = r.self
            /\ heap' = r.heap
            /\ ret' = [op |-> "predict", arg |-> x, arg_after |-> r.x,
                       raised |-> r.raised, value |-> r.value]
    /\ UNCHANGED <<pc, x_train, y_train, degree_arg, writes>>

\* model.loss()
Loss ==
    /\ pc = "trained"
    /\ LET r == loss(model, heap)
       IN  /\ model' = r.self
           /\ heap' = r.heap
           /\ ret' = [op |-> "loss", value |-> r.value]
    /\ UNCHANGED <<pc, x_train, y_train, degree_arg, writes>>

\* b = model.para()
Para ==
    /\ pc = "trained"
    /\ LET r == para(model, heap)
       IN  /\ model' = r.self
           /\ heap' = r.heap
           /\ ret' = [op |-> "para", value |-> r.value]
    /\ UNCHANGED <<pc, x_train, y_train, degree_arg, writes>>

\* the caller's a[0, ..., 0] = v on an array a it holds
Overwrite(a, v) ==
    /\ pc = "trained"
    /\ writes < MaxWrites
    /\ heap[a.buf] # <<>>
    /\ heap' = [heap EXCEPT ![a.buf][1] = v]
    /\ writes' = writes + 1
    /\ UNCHANGED <<pc, x_train, y_train, degree_arg, model, ret>>

\* the caller overwrites an entry of the array para() returned
WriteReturned ==
    /\ ret.op = "para"
    /\ \E v \in WriteVals : Overwrite(ret.value, RInt(v))

\* the caller overwrites an entry of the array it passed as x_train
WriteXTrain == \E v \in WriteVals : Overwrite(x_train, v)

\* the caller overwrites an entry of the array it passed as y_train
WriteYTrain == \E v \in WriteVals : Overwrite(y_train, v)

Next ==
    \/ Construct
    \/ Predict
    \/ Loss
    \/ Para
    \/ WriteReturned
    \/ WriteXTrain
    \/ WriteYTrain

Spec == Init /\ [][Next]_vars

\* ------------------------------------------- _polynomial_features alone

InitPoly ==
    \E x \in {a \in FeatureArrays : ndim(a) = 2}, d \in 1..MaxDegree :
        /\ pc = "poly"
        /\ x_train = [shape |-> x.shape, buf |-> "x_train"]
        /\ y_train = None
        /\ degree_arg = d
        /\ heap = [x_train |-> x.data, y_train |-> <<>>, self_x |-> <<>>, beta |-> <<>>]
        /\ model = None
        /\ ret = [op |-> "none"]
        /\ writes = 0

\* LinearRegression._polynomial_features(x_train, degree)
ApplyPoly ==
    /\ pc = "poly"
    /\ LET x == Deref(x_train, heap)
           r == _polynomial_features(x, degree_arg)
       IN  /\ ret' = [op |-> "_polynomial_features", arg |-> x, arg_after |-> r.x,
                      value |-> r.ret]
           /\ heap' = [heap EXCEPT !.x_train = r.x.data]
    /\ pc' = "poly_done"
    /\ UNCHANGED <<x_train, y_train, degree_arg, model, writes>>

NextPoly == ApplyPoly

SpecPoly == InitPoly /\ [][NextPoly]_vars

\* ---------------------------------------------------------------- claims

\* one of the four shape conditions of construction fails
BadShape ==
    ~ (/\ ndim(x_train) = 2
       /\ ndim(y_train) = 2
       /\ y_train.shape[2] = 1
       /\ x_train.shape[1] = y_train.shape[1])

\* the column count m of the training feature matrix
TrainCols == x_train.shape[2]

\* a step in which the caller overwrote an entry of the array para() returned
WroteReturned ==
    /\ writes' = writes + 1
    /\ ret.op = "para"
    /\ heap'[ret.value.buf] # heap[ret.value.buf]

\* a step in which the caller overwrote an entry of x_train or of y_train
WroteTraining ==
    /\ writes' = writes + 1
    /\ (heap'.x_train # heap.x_train \/ heap'.y_train # heap.y_train)

\* a step that is a predict, loss or para call
Queried ==
    /\ pc = "trained"
    /\ writes' = writes
    /\ ret'.op \in {"predict", "loss", "para"}

\* C1: the caller cannot change the coefficients through the value para()
\* returned: overwriting an entry of it leaves para(), predict(x) and loss()
\* as they were.
C1_ParaResultIsolated ==
    [][WroteReturned =>
        /\ Deref(para(model', heap').value, heap') = Deref(para(model, heap).value, heap)
        /\ loss(model', heap').value = loss(model, heap).value
        /\ \A x \in PredictInputs :
             predict(model', heap', x).value = predict(model, heap, x).value]_vars

\* C2: construction raises the shape ValueError, and leaves no model object,
\* exactly when one of the four shape conditions fails.
C2_ShapeErrorIffBadShape ==
    pc # "start" =>
        /\ BadShape <=> (pc = "failed" /\ ret.raised.type = "ValueError")
        /\ BadShape => model = None

C2_Witness ==
    /\ pc = "failed"
    /\ ret.raised = ValueError("Number of rows in x must match number of rows in y")
    /\ model = None

\* C3: predict(x) raises ValueError when x is not 2-dimensional or its column
\* count is not the training column count m, and otherwise raises nothing
\* and returns a k x 1 matrix for the k rows of x.
C3_PredictShape ==
    ret.op = "predict" =>
        IF ndim(ret.arg) = 2 /\ ret.arg.shape[2] = TrainCols
        THEN /\ ret.raised = None
             /\ ret.value.shape = <<ret.arg.shape[1], 1>>
             /\ Len(ret.value.data) = ret.arg.shape[1]
        ELSE ret.raised.type = "ValueError"

C3_Witness ==
    /\ ret.op = "predict"
    /\ model.degree = 2
    /\ ndim(ret.arg) = 2
    /\ ret.arg.shape[2] # TrainCols
    /\ ret.raised.type = "ValueError"

\* C4: after a successful construction from an n x m feature matrix with
\* degree d, para() returns a matrix of 1 + m * d rows and one column.
C4_ParaLength ==
    ret.op = "para" =>
        /\ ret.value.shape = <<1 + TrainCols * degree_arg, 1>>
        /\ Len(heap[ret.value.buf]) = 1 + TrainCols * degree_arg

\* a without its first row and without its column j (0-based)
Minor(a, j) ==
    LET k == a.shape[1] - 1
    IN  array(<<k, k>>, [n \in 1..(k * k) |->
            LET c == (n - 1) % k
            IN  At(a, ((n - 1) \div k) + 1, IF c < j THEN c ELSE c + 1)])

RECURSIVE Det(_)
\* the determinant of a square integer matrix, expanded along its first row
Det(a) ==
    IF a.shape[1] = 0 THEN 1
    ELSE ISum([j \in 1..a.shape[1] |->
                 (IF j % 2 = 1 THEN 1 ELSE -1) * At(a, 0, j - 1) * Det(Minor(a, j - 1))],
              a.shape[1])

\* the normal-equation matrix XtX of the n x k matrix X is singular: X has
\* more columns than rows, or the determinant is 0
NormalMatrixSingular(X) ==
    \/ X.shape[2] > X.shape[1]
    \/ Det(matmul(transpose(X), X)) = 0

\* the augmented training matrix: the one the model holds, or, when
\* construction failed, the one it built from x_train
AugmentedTraining ==
    IF pc = "trained" THEN Deref(model.x, heap)
    ELSE _fit(_polynomial_features(Deref(x_train, heap), degree_arg).ret, y_train).x

LineInput ==
    /\ ~BadShape
    /\ degree_arg = 1
    /\ TrainCols = 1
    /\ writes = 0
    /\ \E i \in DOMAIN heap.x_train : heap.x_train[i] # heap.x_train[1]

\* the line through the first training point and the first one with another x
LineSlope ==
    LET i == Min({k \in DOMAIN heap.x_train : heap.x_train[k] # heap.x_train[1]})
    IN  Rat(heap.y_train[i] - heap.y_train[1], heap.x_train[i] - heap.x_train[1])

LineIntercept == RSub(RInt(heap.y_train[1]), RMul(LineSlope, RInt(heap.x_train[1])))

LineAt(x0) == RAdd(RMul(LineSlope, RInt(x0)), LineIntercept)

OnLine == \A i \in DOMAIN heap.x_train : RInt(heap.y_train[i]) = LineAt(heap.x_train[i])

\* C6: at degree 1, for one feature column with two distinct values and
\* targets y = a * x + b, construction succeeds, beta is [b, a], predict at x0
\* is a * x0 + b and the loss is 0; scenario A gives beta = [0, 2] and
\* predict([[5]]) = [[10]].
C6_LineRecovered ==
    (pc # "start" /\ LineInput /\ OnLine) =>
        /\ pc = "trained"
        /\ heap.beta = <<LineIntercept, LineSlope>>
        /\ loss(model, heap).value = RInt(0)
        /\ \A x \in PredictInputs :
             x.shape = <<1, 1>> =>
                predict(model, heap, x).value.data = <<LineAt(x.data[1])>>
        /\ (heap.x_train = <<1, 2, 3, 4>> /\ heap.y_train = <<2, 4, 6, 8>>) =>
             /\ Deref(para(model, heap).value, heap) =
                    [shape |-> <<2, 1>>, data |-> <<RInt(0), RInt(2)>>]
             /\ predict(model, heap, [shape |-> <<1, 1>>, data |-> <<5>>]).value =
                    [shape |-> <<1, 1>>, data |-> <<RInt(10)>>]

\* scenario A, after predict([[5]]) returned [[10]]
C6_Witness ==
    /\ LineInput
    /\ OnLine
    /\ heap.x_train = <<1, 2, 3, 4>>
    /\ heap.y_train = <<2, 4, 6, 8>>
    /\ ret.op = "predict"
    /\ ret.arg.data = <<5>>
    /\ ret.value.data = <<RInt(10)>>

\* C7: a predict, loss or para call changes neither the model object (degree,
\* num_feature, its array references) nor any buffer (the stored training
\* matrices, beta, the caller's arrays), and predict leaves its argument as
\* it was, also when it raises.
C7_QueriesChangeNothing ==
    [][Queried =>
        /\ model' = model
        /\ heap' = heap
        /\ (ret'.op = "predict" => ret'.arg_after = ret'.arg)]_vars

\* a predict call that raised on a column mismatch, the model still there
C7_Witness ==
    /\ ret.op = "predict"
    /\ ret.raised.type = "ValueError"
    /\ ndim(ret.arg) = 2
    /\ model # None
    /\ model.degree = degree_arg
    /\ heap.beta # <<>>

\* C8: the model holds its own copies of the training arrays: overwriting an
\* entry of x_train or y_train after construction leaves loss(), predict(x)
\* and para() as they were.
C8_TrainingDataOwned ==
    [][WroteTraining =>
        /\ loss(model', heap').value = loss(model, heap).value
        /\ Deref(para(model', heap').value, heap') = Deref(para(model, heap).value, heap)
        /\ \A x \in PredictInputs :
             predict(model', heap', x).value = predict(model, heap, x).value]_vars

\* C9: _polynomial_features of an n x m matrix X with degree d >= 1 is
\* n x (m * d), its entry (i, (p - 1) * m + j) is X[i][j] to the power p (a
\* power of one input entry, never a product of two columns), it is X for
\* d = 1, and X is left as it was.
C9_PolynomialBlocks ==
    ret.op = "_polynomial_features" =>
        LET X == ret.arg
            n == X.shape[1]
            m == X.shape[2]
        IN  /\ ret.value.shape = <<n, m * degree_arg>>
            /\ Len(ret.value.data) = n * m * degree_arg
            /\ \A i \in 0..(n - 1), j \in 0..(m - 1), p \in 1..degree_arg :
                 At(ret.value, i, (p - 1) * m + j) = IPow(At(X, i, j), p)
            /\ (degree_arg = 1 => ret.value = X)
            /\ ret.arg_after = X
            /\ Deref(x_train, heap) = X

C9_Witness ==
    /\ ret.op = "_polynomial_features"
    /\ degree_arg = 2
    /\ ret.arg = [shape |-> <<3, 2>>, data |-> <<0, 1, 1, 2, 2, 0>>]
    /\ ret.value.data = <<0, 1, 0, 1, 1, 2, 1, 4, 2, 0, 4, 0>>

\* C10: every constructed model has degree >= 1, a first column of ones in
\* its augmented matrix, and num_feature = 1 + m * degree.
C10_DegreeAtLeastOne ==
    pc = "trained" =>
        /\ model.degree >= 1
        /\ \A i \in 0..(model.x.shape[1] - 1) : At(Deref(model.x, heap), i, 0) = 1
        /\ model.num_feature = 1 + TrainCols * model.degree
        /\ model.x.shape[2] = model.num_feature

=============================================================================
